---- MODULE Spec2Model ----
(***************************************************************************)
(* A model of zpaint's SelectionEngine (src/unnamed/part_000): selection   *)
(* masks as RGBA pixel buffers on a heap, the engine's operations as       *)
(* actions that allocate, copy and write those buffers, and the pure       *)
(* pixel algorithms as operators; with it the clipping groups of           *)
(* MaskEngine (src/src/engine/MaskEngine.ts), the undo history of          *)
(* ZPaintApp (src/unnamed/part_003) over the layers of RasterEngine, and   *)
(* the pointer handlers of QuickSelectTool                                 *)
(* (src/src/tools/QuickSelectTool.ts).                                     *)
(*                                                                         *)
(* Numbers.  Radii, seed coordinates and the other fractional arguments    *)
(* are fixed-point integers in units of 1/Scale (Scale = 20), so 0.5 is 10 *)
(* and 0.45 is 9.  Comparisons of square roots are done on the squares,    *)
(* which is exact over the reals.                                          *)
(***************************************************************************)
EXTENDS Integers, Sequences, FiniteSets, TLC

VARIABLES
    image,  \* the caller's RGBA image buffer
    heap,   \* the mask buffers allocated so far: buffer id -> pixel data
    sels,   \* the Selection objects returned so far: [mask: buffer id, bounds, active]
    log,    \* one record per engine call: the operation, its inputs and its result
    width,  \* the width the engine was constructed with, which is the image's
    height, \* the engine's height
    clippingGroups, \* MaskEngine.clippingGroups: [baseLayerId, clippedLayerIds]
    app,    \* ZPaintApp and its RasterEngine: layers, active layer, history, historyIndex
    tool    \* QuickSelectTool: isDrawing, currentSelection, mode, selectionEngine, settings

vars == <<image, heap, sels, log, width, height, clippingGroups, app, tool>>

(***************************************************************************)
(* Bounds of the model.                                                    *)
(***************************************************************************)
W == 3
H == 3
MaxCalls == 3

Scale == 4 * 5

N == width * height
Pos == 0 .. (N - 1)
XOf(pos) == pos % width
YOf(pos) == pos \div width
At(x, y) == y * width + x
InBounds(x, y) == ~(x < 0 \/ x >= width \/ y < 0 \/ y >= height)

SetMax(S) == CHOOSE m \in S : \A v \in S : v <= m
SetMin(S) == CHOOSE m \in S : \A v \in S : m <= v
Abs(v) == IF v < 0 THEN -v ELSE v
Min2(a, b) == IF a < b THEN a ELSE b
Max2(a, b) == IF a < b THEN b ELSE a
\* Math.ceil and Math.floor of the fixed-point number v / Scale
Ceil(v) == -((-v) \div Scale)
Floor(v) == v \div Scale

\* A pixel is <<R, G, B, A>>; a buffer is a function from Pos to pixels.
Gray(v) == <<v, v, v, v>>
Opaque(v) == <<v, v, v, 255>>
\* new ImageData(width, height): every byte zero
NewImageData == [p \in Pos |-> <<0, 0, 0, 0>>]
\* the strength the engine reads from a mask: data[idx], the R channel
Strength(d, p) == d[p][1]

(***************************************************************************)
(* computeBounds                                                           *)
(***************************************************************************)
computeBoundsOffByOne(d) ==
    LET on == {p \in Pos : d[p][1] > 0}
        minX == SetMin({width} \cup {XOf(p) : p \in on})
        minY == SetMin({height} \cup {YOf(p) : p \in on})
        maxX == SetMax({0} \cup {XOf(p) : p \in on})
        maxY == SetMax({0} \cup {YOf(p) : p \in on})
    IN  IF minX > maxX \/ minY > maxY
        THEN [x |-> 0, y |-> 0, width |-> 0, height |-> 0]
        ELSE [x |-> minX, y |-> minY, width |-> maxX - minX, height |-> maxY - minY]

computeBounds(d) ==
    LET on == {p \in Pos : d[p][1] > 0}
        minX == SetMin({width} \cup {XOf(p) : p \in on})
        minY == SetMin({height} \cup {YOf(p) : p \in on})
        maxX == SetMax({0} \cup {XOf(p) : p \in on})
        maxY == SetMax({0} \cup {YOf(p) : p \in on})
    IN  IF minX > maxX \/ minY > maxY
        THEN [x |-> 0, y |-> 0, width |-> 0, height |-> 0]
        ELSE [x |-> minX, y |-> minY,
              width |-> maxX - minX + 1, height |-> maxY - minY + 1]

(***************************************************************************)
(* Morphology: dilate, erode, morphClose, medianFilter                     *)
(***************************************************************************)
\* the in-bounds cells the two nested loops of dilate/erode read for (x, y)
Disc(p, radius) ==
    LET r == Ceil(radius)
    IN  {At(XOf(p) + dx, YOf(p) + dy) : <<dx, dy>> \in
            {o \in ((-r) .. r) \X ((-r) .. r) :
                /\ ~((o[1] * o[1] + o[2] * o[2]) * Scale * Scale > radius * radius)
                /\ InBounds(XOf(p) + o[1], YOf(p) + o[2])}}

dilate(d, radius) ==
    [p \in Pos |-> Opaque(SetMax({0} \cup {d[q][1] : q \in Disc(p, radius)}))]

\* erode with out-of-bounds neighbours read as 0 instead of skipped
erodeZeroBorder(d, radius) ==
    LET r == Ceil(radius)
        cut(p) == \E o \in ((-r) .. r) \X ((-r) .. r) :
                    /\ ~((o[1] * o[1] + o[2] * o[2]) * Scale * Scale > radius * radius)
                    /\ ~InBounds(XOf(p) + o[1], YOf(p) + o[2])
    IN  [p \in Pos |-> Opaque(SetMin({255} \cup {d[q][1] : q \in Disc(p, radius)}
                                     \cup (IF cut(p) THEN {0} ELSE {})))]

erode(d, radius) ==
    [p \in Pos |-> Opaque(SetMin({255} \cup {d[q][1] : q \in Disc(p, radius)}))]

\* morphClose writes the closed data over the mask's own buffer
morphClose(d, radius) == erode(dilate(d, radius), radius)

\* medianFilter: square neighbourhood, in-bounds samples, sorted ascending,
\* the element at index floor(count / 2); an empty sample list reads
\* undefined, which a Uint8ClampedArray stores as 0
Square(p, radius) ==
    LET r == Ceil(radius)
    IN  {At(XOf(p) + o[1], YOf(p) + o[2]) : o \in
            {o \in ((-r) .. r) \X ((-r) .. r) : InBounds(XOf(p) + o[1], YOf(p) + o[2])}}

SortedAt(d, Q, k) ==
    SetMin({d[q][1] : q \in {q \in Q :
                Cardinality({q2 \in Q : d[q2][1] <= d[q][1]}) >= k + 1}})

\* the element at index floor((count - 1) / 2): the lower of the two middle
\* samples of an even count
medianFilterLower(d, radius) ==
    [p \in Pos |->
        LET Q == Square(p, radius)
        IN  Opaque(IF Q = {} THEN 0 ELSE SortedAt(d, Q, (Cardinality(Q) - 1) \div 2))]

medianFilter(d, radius) ==
    [p \in Pos |->
        LET Q == Square(p, radius)
        IN  Opaque(IF Q = {} THEN 0 ELSE SortedAt(d, Q, Cardinality(Q) \div 2))]

(***************************************************************************)
(* gaussianBlur.  The kernel exp(-i^2 / (2 sigma^2)) is tabulated in       *)
(* thousandths for the radii the model uses (sigma = radius); the two      *)
(* passes and the final Math.round are computed exactly on those weights.  *)
(***************************************************************************)
RECURSIVE SeqSum(_)
SeqSum(s) ==
    IF Len(s) = 0 THEN 0
    ELSE IF Len(s) = 1 THEN s[1]
    ELSE SeqSum(SubSeq(s, 1, Len(s) \div 2)) + SeqSum(SubSeq(s, Len(s) \div 2 + 1, Len(s)))

KernelHalf(radius) == -((-(radius * 3)) \div Scale)

\* 1000 * exp(-i^2 / (2 sigma^2)) for i = 0 .. ceil(3 sigma)
GaussMilli(radius) ==
    CASE radius = 6  -> <<1000, 4>>
      [] radius = 8  -> <<1000, 44, 0>>
      [] radius = 9  -> <<1000, 85, 0>>
      [] radius = 10 -> <<1000, 135, 0>>
      [] radius = 20 -> <<1000, 607, 135, 11>>

Clamp(v, lo, hi) == IF v < lo THEN lo ELSE IF v > hi THEN hi ELSE v

\* the blurred buffer for radius >= 0.5
blurPasses(d, radius) ==
    LET r == KernelHalf(radius)
        g == GaussMilli(radius)
        k(i) == g[Abs(i) + 1]
        sum == SeqSum([j \in 1 .. (2 * r + 1) |-> k(j - r - 1)])
        temp == [p \in Pos |->
                    SeqSum([j \in 1 .. (2 * r + 1) |->
                        d[At(Clamp(XOf(p) + j - r - 1, 0, width - 1), YOf(p))][1]
                            * k(j - r - 1)])]
        val(p) == SeqSum([j \in 1 .. (2 * r + 1) |->
                        temp[At(XOf(p), Clamp(YOf(p) + j - r - 1, 0, height - 1))]
                            * k(j - r - 1)])
    IN  [p \in Pos |-> Opaque((val(p) + ((sum * sum) \div 2)) \div (sum * sum))]

\* if (radius <= 0) return mask
blurSkipsNone(radius) == radius <= 0
\* if (radius < 0.5) return mask
blurSkipsQuarter(radius) == 4 * radius < Scale
blurSkips(radius) == 2 * radius < Scale

(***************************************************************************)
(* Selection algebra: invert, combine, alpha conversions                   *)
(***************************************************************************)
\* invert with 256 - val, which the clamped array stores as at most 255
invertDataOffByOne(d) ==
    [p \in Pos |-> <<Min2(255, 256 - d[p][1]), Min2(255, 256 - d[p][2]),
                     Min2(255, 256 - d[p][3]), 255>>]

invertData(d) ==
    [p \in Pos |-> <<255 - d[p][1], 255 - d[p][2], 255 - d[p][3], 255>>]

\* the bodies of 'add' and 'subtract' exchanged
combineValueSwapped(aVal, bVal, mode) ==
    CASE mode = "add" -> Max2(0, aVal - bVal)
      [] mode = "subtract" -> Min2(255, aVal + bVal)
      [] mode = "intersect" -> Min2(aVal, bVal)
      [] OTHER -> bVal

\* 'intersect' taking the larger of the two strengths
combineValueIntersectMax(aVal, bVal, mode) ==
    CASE mode = "add" -> Min2(255, aVal + bVal)
      [] mode = "subtract" -> Max2(0, aVal - bVal)
      [] mode = "intersect" -> Max2(aVal, bVal)
      [] OTHER -> bVal

combineValue(aVal, bVal, mode) ==
    CASE mode = "add" -> Min2(255, aVal + bVal)
      [] mode = "subtract" -> Max2(0, aVal - bVal)
      [] mode = "intersect" -> Min2(aVal, bVal)
      [] OTHER -> bVal

combineData(a, b, mode) ==
    [p \in Pos |-> Opaque(combineValue(a[p][1], b[p][1], mode))]

selectionFromAlphaData(img) == [p \in Pos |-> Opaque(img[p][4])]

\* the alpha overwritten by the strength
applySelectionAsAlphaDataAssign(img, m) ==
    [p \in Pos |-> <<img[p][1], img[p][2], img[p][3], m[p][1]>>]

applySelectionAsAlphaData(img, m) ==
    [p \in Pos |-> <<img[p][1], img[p][2], img[p][3], Min2(img[p][4], m[p][1])>>]

(***************************************************************************)
(* computeEdgeMap.  Luminance is 0.299 R + 0.587 G + 0.114 B; the model    *)
(* keeps it in units of 51/1000 (image channels are multiples of 51), a    *)
(* common factor that the normalisation by the maximum cancels.  An edge   *)
(* value is kept as the squared magnitude together with the squared        *)
(* maximum; edges[pos] is sqrt(mag2 / max2), or 0 when the maximum is 0.   *)
(***************************************************************************)
Lum(px) == (299 * px[1] + 587 * px[2] + 114 * px[3]) \div 51

sobelX == <<-1, 0, 1, -2, 0, 2, -1, 0, 1>>
sobelY == <<-1, -2, -1, 0, 0, 0, 1, 2, 1>>

Interior(p) == XOf(p) >= 1 /\ XOf(p) < width - 1 /\ YOf(p) >= 1 /\ YOf(p) < height - 1

computeEdgeMap(img) ==
    LET g(p, kern) ==
            SeqSum([ki \in 1 .. 9 |->
                Lum(img[At(XOf(p) + ((ki - 1) % 3) - 1, YOf(p) + ((ki - 1) \div 3) - 1)])
                    * kern[ki]])
        mag2 == [p \in Pos |->
                    IF Interior(p)
                    THEN g(p, sobelX) * g(p, sobelX) + g(p, sobelY) * g(p, sobelY)
                    ELSE 0]
    IN  [mag2 |-> mag2, max2 |-> SetMax({0} \cup {mag2[p] : p \in Pos})]

\* the threshold taken on the 0 .. 255 scale: edges[pos] > 255 * num / den
edgeAboveByteScale(edges, pos, num, den) ==
    LET n2 == num * num
        d2 == den * den
        m == edges.max2
    IN  /\ m > 0
        /\ edges.mag2[pos] \div (255 * 255) > n2 * (m \div d2) + (n2 * (m % d2)) \div d2

\* edges[pos] > num / den
edgeAbove(edges, pos, num, den) ==
    LET n2 == num * num
        d2 == den * den
        m == edges.max2
    IN  /\ m > 0
        /\ edges.mag2[pos] > n2 * (m \div d2) + (n2 * (m % d2)) \div d2

(***************************************************************************)
(* quickSelect: the work-list loop                                         *)
(***************************************************************************)
\* edgeThreshold = 0.3, in tenths
edgeThreshold10 == 3
colorTolerance == 50

\* the order the source pushes the four neighbours in
SourceOrder == << <<-1, 0>>, <<1, 0>>, <<0, -1>>, <<0, 1>> >>

\* queue.pop() in place of queue.shift()
queuePop(queue) == [item |-> queue[Len(queue)], rest |-> SubSeq(queue, 1, Len(queue) - 1)]
queueShift(queue) == [item |-> Head(queue), rest |-> Tail(queue)]

qsWrite(mask, pos, mode) ==
    IF mode = "new" \/ mode = "add" THEN [mask EXCEPT ![pos] = Gray(255)]
    ELSE IF mode = "subtract" THEN [mask EXCEPT ![pos] = Gray(0)]
    ELSE mask

\* the radius cap applied only beyond the seed's ring
tooFarBeyondRing(dist2, maxRadius, depth) ==
    (maxRadius < 0 \/ dist2 > maxRadius * maxRadius) /\ depth > 1

\* the cap at twice maxRadius
tooFarDoubled(dist2, maxRadius, depth) ==
    maxRadius < 0 \/ dist2 > 4 * maxRadius * maxRadius

\* if (dist > maxRadius) continue, on the squared distance
tooFar(dist2, maxRadius, depth) ==
    maxRadius < 0 \/ dist2 > maxRadius * maxRadius

\* The entries of the queue the loop would pop and skip without any effect:
\* those outside the image and those whose cell is already visited (a cell
\* never leaves `visited`).  Dropping them when the cell is marked keeps the
\* order of the others and the result.
qsSkipped(item, visited) ==
    LET ix == Floor(item[1])
        iy == Floor(item[2])
    IN  ix < 0 \/ ix >= width \/ iy < 0 \/ iy >= height \/ (iy * width + ix) \in visited

qsPending(queue, visited) == SelectSeq(queue, LAMBDA item : ~qsSkipped(item, visited))

\* c: [img, edges, startX, startY, maxRadius, mode, order]
RECURSIVE qsLoop(_, _, _, _)
qsLoop(queue, visited, mask, c) ==
    IF Len(queue) = 0 THEN mask
    ELSE
    LET t == queueShift(queue)
        x == t.item[1]
        y == t.item[2]
        depth == t.item[3]
        ix == Floor(x)
        iy == Floor(y)
        pos == iy * width + ix
        dist2 == (x - c.startX) * (x - c.startX) + (y - c.startY) * (y - c.startY)
        start == c.img[Floor(c.startY) * width + Floor(c.startX)]
        px == c.img[pos]
        dr == Abs(px[1] - start[1])
        dg == Abs(px[2] - start[2])
        db == Abs(px[3] - start[3])
        seen == visited \cup {pos}
        rest == qsPending(t.rest, seen)
    IN  IF ix < 0 \/ ix >= width \/ iy < 0 \/ iy >= height THEN qsLoop(t.rest, visited, mask, c)
        ELSE IF pos \in visited THEN qsLoop(t.rest, visited, mask, c)
        ELSE IF tooFar(dist2, c.maxRadius, depth)
            THEN qsLoop(rest, seen, mask, c)
        ELSE IF edgeAbove(c.edges, pos, edgeThreshold10, 10) /\ depth > 1
            THEN qsLoop(rest, seen, mask, c)
        ELSE IF dr + dg + db > colorTolerance * 3 /\ depth > 1
            THEN qsLoop(rest, seen, mask, c)
        ELSE qsLoop(
                IF depth * Scale < c.maxRadius
                THEN qsPending(
                        t.rest \o [i \in 1 .. 4 |->
                            <<x + c.order[i][1] * Scale, y + c.order[i][2] * Scale,
                              depth + 1>>],
                        seen)
                ELSE rest,
                seen, qsWrite(mask, pos, c.mode), c)

\* the seed moved to the nearest pixel of the image
quickSelectDataClamped(img, startX, startY, radius, mode, start, order) ==
    LET sx == Clamp(startX, 0, (width - 1) * Scale)
        sy == Clamp(startY, 0, (height - 1) * Scale)
    IN  qsLoop(<< <<sx, sy, 0>> >>, {}, start,
               [img |-> img, edges |-> computeEdgeMap(img), startX |-> sx,
                startY |-> sy, maxRadius |-> radius * 3, mode |-> mode,
                order |-> order])

\* the mask quickSelect leaves in its working buffer, which starts as `start`
quickSelectData(img, startX, startY, radius, mode, start, order) ==
    qsLoop(<< <<startX, startY, 0>> >>, {}, start,
           [img |-> img, edges |-> computeEdgeMap(img), startX |-> startX,
            startY |-> startY, maxRadius |-> radius * 3, mode |-> mode,
            order |-> order])

(***************************************************************************)
(* selectColorRange.  value = round(max(0, 1 - dist / maxDist) * 255) with *)
(* maxDist = fuzziness * 2.55; value >= v exactly when                     *)
(* 200 * dist <= (511 - 2 v) * fuzziness, decided on the squares.          *)
(* maxDist = 0: dist / 0 is Infinity for dist > 0 (strength 0) and NaN for *)
(* dist = 0, and Math.round(NaN) is stored by the clamped array as 0.      *)
(* maxDist < 0: 1 - dist / maxDist >= 1, stored as 255.                    *)
(***************************************************************************)
\* 200 * sqrt(d2) <= X, for X >= 0
DistWithin(d2, X) ==
    LET a == X \div 200
        b == X % 200
    IN  \/ d2 <= a * a
        \/ /\ d2 - a * a <= 2 * a + 1
           /\ (d2 - a * a) * 40000 <= 400 * a * b + b * b

\* the strength scaled by 254 instead of 255
colorRangeValue254(px, targetColor, fuzziness) ==
    LET dr == px[1] - targetColor[1]
        dg == px[2] - targetColor[2]
        db == px[3] - targetColor[3]
        d2 == dr * dr + dg * dg + db * db
    IN  IF fuzziness = 0 THEN 0
        ELSE IF fuzziness < 0 THEN 254
        ELSE Cardinality({v \in 1 .. 254 : DistWithin(d2, (509 - 2 * v) * fuzziness)})

colorRangeValue(px, targetColor, fuzziness) ==
    LET dr == px[1] - targetColor[1]
        dg == px[2] - targetColor[2]
        db == px[3] - targetColor[3]
        d2 == dr * dr + dg * dg + db * db
    IN  IF fuzziness = 0 THEN 0
        ELSE IF fuzziness < 0 THEN 255
        ELSE Cardinality({v \in 1 .. 255 : DistWithin(d2, (511 - 2 * v) * fuzziness)})

selectColorRangeData(img, targetColor, fuzziness) ==
    [p \in Pos |-> Gray(colorRangeValue(img[p], targetColor, fuzziness))]

(***************************************************************************)
(* refineEdge's stages.  options.radius is an integer number of pixels     *)
(* here (it is a loop bound in findEdgeZone); smooth, feather, contrast    *)
(* and shift are as in RefineEdgeOptions, feather in units of 1/Scale.     *)
(***************************************************************************)
findEdgeZone(d, radius) ==
    LET partial(p) == d[p][1] > 0 /\ d[p][1] < 255
        isEdge(p) == \E o \in (-1 .. 1) \X (-1 .. 1) :
                        /\ InBounds(XOf(p) + o[1], YOf(p) + o[2])
                        /\ Abs(d[At(XOf(p) + o[1], YOf(p) + o[2])][1] - d[p][1]) > 128
        around(p) == {At(XOf(p) + o[1], YOf(p) + o[2]) : o \in
                        {o \in ((-radius) .. radius) \X ((-radius) .. radius) :
                            /\ InBounds(XOf(p) + o[1], YOf(p) + o[2])
                            /\ o[1] * o[1] + o[2] * o[2] <= radius * radius}}
    IN  {p \in Pos : partial(p)}
        \cup UNION {around(p) : p \in {q \in Pos : ~partial(q) /\ isEdge(q)}}

\* every pixel of the edge zone made binary, whatever its edge strength
applySmartRadiusWholeZone(d, edges, edgeZone) ==
    [p \in Pos |->
        IF p \in edgeZone
        THEN LET v == IF d[p][1] > 127 THEN 255 ELSE 0 IN <<v, v, v, d[p][4]>>
        ELSE d[p]]

applySmartRadius(d, edges, edgeZone) ==
    [p \in Pos |->
        IF p \in edgeZone /\ edgeAbove(edges, p, 1, 2)
        THEN LET v == IF d[p][1] > 127 THEN 255 ELSE 0 IN <<v, v, v, d[p][4]>>
        ELSE d[p]]

\* amount = contrast / 50;
\* round(((val / 255 - 0.5) * (1 + amount) + 0.5) * 255), clamped to 0 .. 255
applyContrast(d, contrast) ==
    [p \in Pos |->
        LET v == Clamp((((2 * d[p][1] - 255) * (50 + contrast)) + 12750 + 50) \div 100,
                       0, 255)
        IN  <<v, v, v, d[p][4]>>]

(***************************************************************************)
(* selectSubject.  Saliency is kept in millionths; its two square roots    *)
(* (the normalised edge value and the distance from the centre) are        *)
(* integer square roots in thousandths.                                    *)
(***************************************************************************)
RECURSIVE IsqrtIn(_, _, _)
IsqrtIn(n, lo, hi) ==
    IF lo >= hi THEN lo
    ELSE LET mid == (lo + hi + 1) \div 2
         IN  IF mid * mid <= n THEN IsqrtIn(n, mid, hi) ELSE IsqrtIn(n, lo, mid - 1)
Isqrt(n) == IsqrtIn(n, 0, 1000)

\* the normalisation without its guard: 0 / 0 is NaN, written -1 here
edgeMilliUnguarded(edges, pos) ==
    IF edges.max2 = 0 THEN -1
    ELSE LET k == edges.max2 \div 2000 + 1
         IN  Isqrt(((edges.mag2[pos] \div k) * 1000000) \div Max2(1, edges.max2 \div k))

\* 1000 * edges[pos]; if (maxEdge > 0) edges[i] /= maxEdge
edgeMilli(edges, pos) ==
    IF edges.max2 = 0 THEN 0
    ELSE LET k == edges.max2 \div 2000 + 1
         IN  Isqrt(((edges.mag2[pos] \div k) * 1000000) \div Max2(1, edges.max2 \div k))

saliencyMicro(img, edges, p) ==
    LET dnum == (2 * XOf(p) - width) * (2 * XOf(p) - width) + (2 * YOf(p) - height) * (2 * YOf(p) - height)
        dden == width * width + height * height
        \* floor(dnum * 10^6 / dden), divided in two steps of 1000
        ratio == ((dnum * 1000) \div dden) * 1000 + (((dnum * 1000) % dden) * 1000) \div dden
        distMilli == Isqrt(ratio)
        sat == Max2(img[p][1], Max2(img[p][2], img[p][3]))
               - Min2(img[p][1], Min2(img[p][2], img[p][3]))
    IN  300 * edgeMilli(edges, p) + (400000 - 200 * distMilli) + (300000 * sat) \div 255

\* threshold = 0.35 and threshold * 0.8, in millionths
salThreshold == 350000
salSpread == (salThreshold * 8) \div 10
minRegion == 100

\* one turn of the inner flood fill's while loop: pop the last position of
\* the stack, skip it if visited, mark it, drop it if below the spread
\* threshold, else add it to the region and push its in-bounds neighbours
ssStep(s, sal) ==
    LET pos == s.queue[Len(s.queue)]
        rest == SubSeq(s.queue, 1, Len(s.queue) - 1)
        px == pos % width
        py == pos \div width
        push == (IF px > 0 THEN <<pos - 1>> ELSE <<>>)
                \o (IF px < width - 1 THEN <<pos + 1>> ELSE <<>>)
                \o (IF py > 0 THEN <<pos - width>> ELSE <<>>)
                \o (IF py < height - 1 THEN <<pos + width>> ELSE <<>>)
    IN  IF pos \in s.visited THEN [s EXCEPT !.queue = rest]
        ELSE IF sal[pos] < salSpread
        THEN [s EXCEPT !.queue = rest, !.visited = @ \cup {pos}]
        ELSE [queue |-> rest \o push, visited |-> s.visited \cup {pos},
              points |-> Append(s.points, pos)]

\* while (queue.length > 0): up to n turns of the loop, the first half of
\* them and then the rest
RECURSIVE ssLoop(_, _, _)
ssLoop(s, n, sal) ==
    IF Len(s.queue) = 0 THEN s
    ELSE IF n <= 1 THEN ssStep(s, sal)
    ELSE ssLoop(ssLoop(s, n \div 2, sal), n - n \div 2, sal)

\* the inner flood fill: a stack of positions, popped from the end; every
\* pixel is pushed at most once by each of its four neighbours, so the loop
\* ends within 4 * N + 1 turns
ssFill(queue, visited, region, sal) ==
    LET s == ssLoop([queue |-> queue, visited |-> visited, points |-> region],
                    4 * N + 1, sal)
    IN  [visited |-> s.visited, points |-> s.points]

\* the next pixel at or after idx, in row order, that starts a region: an
\* interior pixel not yet visited whose saliency reaches the threshold
ssSeeds(idx, visited, sal) ==
    {i \in idx .. (N - 1) : Interior(i) /\ i \notin visited /\ sal[i] >= salThreshold}

\* the scan over the interior pixels in row order, collecting the regions
RECURSIVE ssScan(_, _, _, _)
ssScan(idx, visited, regions, sal) ==
    IF ssSeeds(idx, visited, sal) = {} THEN regions
    ELSE LET seed == SetMin(ssSeeds(idx, visited, sal))
             f == ssFill(<<seed>>, visited, <<>>, sal)
             score == SeqSum([i \in 1 .. Len(f.points) |-> sal[f.points[i]] \div 1000])
         IN  ssScan(seed + 1, f.visited,
                    IF Len(f.points) > minRegion
                    THEN Append(regions, [points |-> f.points, score |-> score])
                    ELSE regions,
                    sal)

\* the region of the highest average saliency (score / points.length), the
\* first of them in scan order
mainRegionByAverage(regions) ==
    LET avg(i) == (regions[i].score * 1000) \div Len(regions[i].points)
        best == SetMax({avg(i) : i \in 1 .. Len(regions)})
        first == SetMin({i \in 1 .. Len(regions) : avg(i) = best})
    IN  regions[first]

\* regions.sort((a, b) => b.score - a.score)[0]: the first region of the
\* highest score (the sort is stable)
mainRegion(regions) ==
    LET best == SetMax({regions[i].score : i \in 1 .. Len(regions)})
        first == SetMin({i \in 1 .. Len(regions) : regions[i].score = best})
    IN  regions[first]

selectSubjectData(img) ==
    LET edges == computeEdgeMap(img)
        sal == [p \in Pos |-> saliencyMicro(img, edges, p)]
        regions == ssScan(0, {}, <<>>, sal)
        painted == IF Len(regions) > 0
                   THEN LET pts == {mainRegion(regions).points[i] :
                                        i \in 1 .. Len(mainRegion(regions).points)}
                        IN  [p \in Pos |-> IF p \in pts THEN Gray(255) ELSE Gray(0)]
                   ELSE NewImageData
    IN  morphClose(painted, 3 * Scale)

(***************************************************************************)
(* Buffers and selections.  A selection holds the id of its mask buffer,   *)
(* so two selections can share one buffer and a write through one id is    *)
(* seen through the other.                                                 *)
(***************************************************************************)
\* a working mask: the heap and the id of the buffer `mask` refers to
Ref(h, id) == [h |-> h, id |-> id]

\* new ImageData(...) filled with d: a buffer nothing else refers to
Alloc(h, d) == Ref(Append(h, d), Len(h) + 1)

\* the copy aliases its source: no new buffer
copyMaskAliased(h, src) == Ref(h, src)
\* new ImageData(new Uint8ClampedArray(src.data), width, height)
copyMask(h, src) == Alloc(h, h[src])

\* writes through the working mask's id
WriteAll(m, d) == Ref([m.h EXCEPT ![m.id] = d], m.id)

gaussianBlur(m, radius) ==
    IF blurSkips(radius) THEN m ELSE Alloc(m.h, blurPasses(m.h[m.id], radius))

\* the buffers a call allocated and dropped again are garbage; the result
\* keeps the buffers that existed before the call and the returned one
Returned(h0, m) ==
    IF m.id <= Len(h0) THEN Ref(SubSeq(m.h, 1, Len(h0)), m.id)
    ELSE Ref(Append(SubSeq(m.h, 1, Len(h0)), m.h[m.id]), Len(h0) + 1)

FullCanvas == [x |-> 0, y |-> 0, width |-> width, height |-> height]

\* a log record: a and b are the indices in sels of the input selections
\* (0: none), out the index of the returned selection (0: none); the other
\* fields are the call's arguments, where it has them
Call(op, a, b, radius) ==
    [op |-> op, a |-> a, b |-> b, out |-> 0, radius |-> radius, mode |-> "",
     x |-> 0, y |-> 0, fuzziness |-> 0, targetColor |-> <<>>, options |-> <<>>]

\* return { mask, bounds: this.computeBounds(mask), active: true }
Return(m, call) ==
    LET r == Returned(heap, m)
    IN  /\ heap' = r.h
        /\ sels' = Append(sels, [mask |-> r.id, bounds |-> computeBounds(r.h[r.id]),
                                 active |-> TRUE])
        /\ log' = Append(log, [call EXCEPT !.out = Len(sels) + 1])
        /\ UNCHANGED <<image, width, height, clippingGroups, app, tool>>

\* invertSelection returns the full canvas as bounds
invertBoundsComputed(d) == computeBounds(d)
invertBounds(d) == FullCanvas

ReturnInverted(m, call) ==
    LET r == Returned(heap, m)
    IN  /\ heap' = r.h
        /\ sels' = Append(sels, [mask |-> r.id, bounds |-> invertBounds(r.h[r.id]),
                                 active |-> TRUE])
        /\ log' = Append(log, [call EXCEPT !.out = Len(sels) + 1])
        /\ UNCHANGED <<image, width, height, clippingGroups, app, tool>>

(***************************************************************************)
(* The state of the other components after construction                    *)
(***************************************************************************)
\* a layer of RasterEngine: its id and its pixels, which are one colour all
\* over (a new layer is transparent; fillLayer and a flood fill of a layer
\* of one colour paint all of it)
Layer(id, fill) == [id |-> id, fill |-> fill]
Transparent == <<0, 0, 0, 0>>
DocumentBackground == <<255, 255, 255, 255>>

\* ZPaintApp after its first effect: createLayer('Background'), fillLayer,
\* setActiveLayerId; history = [], historyIndex = -1.  nextId stands for
\* generateId(), engineActive for RasterEngine.activeLayerId.
AppConstructed ==
    [layers |-> <<Layer(1, DocumentBackground)>>, activeLayerId |-> 1, engineActive |-> 1,
     nextId |-> 2, history |-> <<>>, historyIndex |-> -1]

\* QuickSelectTool after its constructor; currentSelection is an index in
\* sels, 0 for null
ToolConstructed(size, autoEnhance) ==
    [isDrawing |-> FALSE, lastX |-> 0, lastY |-> 0, selectionEngine |-> FALSE,
     currentSelection |-> 0, mode |-> "new",
     settings |-> [size |-> size, autoEnhance |-> autoEnhance]]

Constructed ==
    /\ clippingGroups = <<>>
    /\ app = AppConstructed
    /\ tool = ToolConstructed(Scale, FALSE)

(***************************************************************************)
(* The inputs the model draws from                                         *)
(***************************************************************************)
ColRed == <<255, 0, 0, 255>>
ColOrange == <<204, 51, 0, 102>>
ColBlue == <<0, 0, 255, 0>>

\* which pixels of an initial image take the second colour
Patterns == {"uniform", "spot"}
InPattern(pat, p) ==
    CASE pat = "uniform" -> FALSE
      [] pat = "spot" -> XOf(p) = width - 1 /\ YOf(p) = 1

ColourPairs == {<<ColRed, ColBlue>>, <<ColBlue, ColOrange>>}

Images == {[p \in Pos |-> IF InPattern(pat, p) THEN c[2] ELSE c[1]] :
                pat \in Patterns, c \in ColourPairs}

Modes == {"new", "add", "subtract", "intersect"}
\* seed points (startX, startY), fixed-point: (0, 0), (1.5, 1.5), (-1, 0)
Seeds == {<<0, 0>>, <<30, 30>>, <<-20, 0>>}
QuickRadii == {0, 10, 20}
\* every order the four neighbours can be pushed in
Orders == {[i \in 1 .. 4 |-> SourceOrder[f[i]]] : f \in Permutations(1 .. 4)}
\* the arguments of the calls of a chain
ChainSeeds == {<<0, 0>>}
ChainRadii == {10}
MorphRadii == {20, 30}
BlurRadii == {8, 20}
MedianRadii == {20}
Fuzziness == {50, 200}
Targets == {ColRed}

RefineOptions ==
    { [radius |-> 0, smooth |-> 0, feather |-> 0, contrast |-> 0, shift |-> 0],
      [radius |-> 1, smooth |-> 0, feather |-> 0, contrast |-> 50, shift |-> 0],
      [radius |-> 1, smooth |-> 20, feather |-> 0, contrast |-> 0, shift |-> -10],
      [radius |-> 0, smooth |-> 0, feather |-> 10, contrast |-> 0, shift |-> 10],
      [radius |-> 1, smooth |-> 0, feather |-> 0, contrast |-> 0, shift |-> 0],
      [radius |-> 0, smooth |-> 9, feather |-> 0, contrast |-> 0, shift |-> 0] }

Init ==
    /\ width = W
    /\ height = H
    /\ image \in Images
    /\ heap = <<>>
    /\ sels = <<>>
    /\ log = <<>>
    /\ Constructed

More == Len(log) < MaxCalls
Latest == Len(sels)

(***************************************************************************)
(* The engine's operations                                                 *)
(***************************************************************************)
quickSelectCall(startX, startY, radius, mode, existing, order, call) ==
    LET mask == IF existing > 0 THEN copyMask(heap, sels[existing].mask)
                ELSE Alloc(heap, NewImageData)
        out == quickSelectData(image, startX, startY, radius, mode, mask.h[mask.id], order)
    IN  Return(WriteAll(mask, out), call)

\* quickSelect with its arguments drawn from the given sets
QuickSelectFrom(seeds, radii, orders) ==
    \E s \in seeds, radius \in radii, mode \in Modes, existing \in {0, Latest},
       order \in orders :
        quickSelectCall(s[1], s[2], radius, mode, existing, order,
                        [Call("quickSelect", existing, 0, radius)
                            EXCEPT !.mode = mode, !.x = s[1], !.y = s[2]])

QuickSelect ==
    /\ More
    /\ QuickSelectFrom(ChainSeeds, ChainRadii, {SourceOrder})

SelectSubject ==
    /\ More
    /\ Return(WriteAll(Alloc(heap, NewImageData), selectSubjectData(image)),
              Call("selectSubject", 0, 0, 0))

\* selectColorRange with its options drawn from the given sets
SelectColorRangeFrom(targets, fuzzinesses) ==
    \E t \in targets, f \in fuzzinesses :
        Return(WriteAll(Alloc(heap, NewImageData), selectColorRangeData(image, t, f)),
               [Call("selectColorRange", 0, 0, 0)
                    EXCEPT !.fuzziness = f, !.targetColor = t])

SelectColorRange ==
    /\ More
    /\ SelectColorRangeFrom(Targets, Fuzziness)

\* the four modifications of the latest selection, the radius drawn from
\* the given set
GrowSelectionFrom(radii) ==
    \E pixels \in radii :
        Return(Alloc(heap, dilate(heap[sels[Latest].mask], pixels)),
               Call("growSelection", Latest, 0, pixels))

ShrinkSelectionFrom(radii) ==
    \E pixels \in radii :
        Return(Alloc(heap, erode(heap[sels[Latest].mask], pixels)),
               Call("shrinkSelection", Latest, 0, pixels))

FeatherSelectionFrom(radii) ==
    \E radius \in radii :
        Return(gaussianBlur(Ref(heap, sels[Latest].mask), radius),
               Call("featherSelection", Latest, 0, radius))

SmoothSelectionFrom(radii) ==
    \E radius \in radii :
        Return(Alloc(heap, medianFilter(heap[sels[Latest].mask], radius)),
               Call("smoothSelection", Latest, 0, radius))

GrowSelection ==
    /\ More /\ Latest > 0
    /\ GrowSelectionFrom(MorphRadii)

ShrinkSelection ==
    /\ More /\ Latest > 0
    /\ ShrinkSelectionFrom(MorphRadii)

FeatherSelection ==
    /\ More /\ Latest > 0
    /\ FeatherSelectionFrom(BlurRadii)

SmoothSelection ==
    /\ More /\ Latest > 0
    /\ SmoothSelectionFrom(MedianRadii)

InvertSelection ==
    /\ More /\ Latest > 0
    /\ LET mask == copyMask(heap, sels[Latest].mask)
       IN  ReturnInverted(WriteAll(mask, invertData(mask.h[mask.id])),
                          Call("invertSelection", Latest, 0, 0))

CombineSelections ==
    /\ More /\ Latest > 0
    /\ \E b \in {1}, mode \in Modes :
        Return(WriteAll(Alloc(heap, NewImageData),
                        combineData(heap[sels[Latest].mask], heap[sels[b].mask], mode)),
               [Call("combineSelections", Latest, b, 0) EXCEPT !.mode = mode])

refineEdgeMask(h, src, img, options) ==
    LET m0 == copyMask(h, src)
        edgeZone == findEdgeZone(m0.h[m0.id], options.radius)
        m1 == IF options.radius > 0
              THEN WriteAll(m0, applySmartRadius(m0.h[m0.id], computeEdgeMap(img), edgeZone))
              ELSE m0
        m2 == IF options.smooth > 0 THEN gaussianBlur(m1, options.smooth) ELSE m1
        m3 == IF options.feather > 0 THEN gaussianBlur(m2, options.feather) ELSE m2
        m4 == IF options.contrast > 0
              THEN WriteAll(m3, applyContrast(m3.h[m3.id], options.contrast))
              ELSE m3
    IN  IF options.shift > 0 THEN Alloc(m4.h, dilate(m4.h[m4.id], 2 * Abs(options.shift)))
        ELSE IF options.shift < 0 THEN Alloc(m4.h, erode(m4.h[m4.id], 2 * Abs(options.shift)))
        ELSE m4

RefineEdge ==
    /\ More /\ Latest > 0
    /\ \E options \in RefineOptions :
        Return(refineEdgeMask(heap, sels[Latest].mask, image, options),
               [Call("refineEdge", Latest, 0, options.radius) EXCEPT !.options = options])

SelectionFromAlpha ==
    /\ More
    /\ Return(WriteAll(Alloc(heap, NewImageData), selectionFromAlphaData(image)),
              Call("selectionFromAlpha", 0, 0, 0))

ApplySelectionAsAlpha ==
    /\ More /\ Latest > 0
    /\ image' = applySelectionAsAlphaData(image, heap[sels[Latest].mask])
    /\ log' = Append(log, Call("applySelectionAsAlpha", Latest, 0, 0))
    /\ UNCHANGED <<heap, sels, width, height, clippingGroups, app, tool>>

Next ==
    \/ QuickSelect
    \/ SelectSubject
    \/ SelectColorRange
    \/ GrowSelection
    \/ ShrinkSelection
    \/ FeatherSelection
    \/ SmoothSelection
    \/ InvertSelection
    \/ CombineSelections
    \/ RefineEdge
    \/ SelectionFromAlpha
    \/ ApplySelectionAsAlpha

Spec == Init /\ [][Next]_vars

(***************************************************************************)
(* Repeated quickSelect calls (brush strokes) with the neighbours pushed   *)
(* in any order                                                            *)
(***************************************************************************)
MaxStrokes == 2

QuickSelectAnyOrder ==
    /\ Len(log) < MaxStrokes
    /\ QuickSelectFrom(Seeds, QuickRadii, Orders)

SpecQuick == Init /\ [][QuickSelectAnyOrder]_vars

(***************************************************************************)
(* Strokes on a larger image that is one block of colour inside a frame of *)
(* another, with seeds inside and outside the image                        *)
(***************************************************************************)
BlockSize == 5
MaxBlockStrokes == 2

ColClear == <<255, 0, 0, 0>>
\* <<block colour, frame colour>>
BlockPairs == {<<ColRed, ColRed>>, <<ColRed, ColClear>>, <<ColRed, ColBlue>>,
               <<ColBlue, ColOrange>>}
OnFrame(p) == ~Interior(p)
BlockImages == {[p \in Pos |-> IF OnFrame(p) THEN c[2] ELSE c[1]] : c \in BlockPairs}

\* (2, 2), (1, 1), and seeds left of, right of, above and below the image:
\* (-1, 2), (width, 2), (2, -0.5), (2, height)
BlockSeeds == {<<2 * Scale, 2 * Scale>>, <<Scale, Scale>>,
               <<-Scale, 2 * Scale>>, <<width * Scale, 2 * Scale>>,
               <<2 * Scale, -(Scale \div 2)>>, <<2 * Scale, height * Scale>>}
\* radii 0, 0.25 and 1
BlockRadii == {0, 5, 20}

InitBlock ==
    /\ width = BlockSize
    /\ height = BlockSize
    /\ image \in BlockImages
    /\ heap = <<>>
    /\ sels = <<>>
    /\ log = <<>>
    /\ Constructed

QuickSelectBlock ==
    /\ Len(log) < MaxBlockStrokes
    /\ QuickSelectFrom(BlockSeeds, BlockRadii, {SourceOrder})

SpecBlock == InitBlock /\ [][QuickSelectBlock]_vars

(***************************************************************************)
(* Small masks for the median filter: images of two columns and one or two *)
(* rows, every pixel of any of the three colours, so that every sample     *)
(* list has an even count (2 or 4) and the masks taken from the alpha      *)
(* channel hold 0, 102 and 255 in every arrangement                        *)
(***************************************************************************)
StripWidth == 2
StripHeight == 2
MaxStripCalls == 3

StripColours == {ColRed, ColOrange, ColBlue}

InitStrip ==
    /\ width = StripWidth
    /\ height \in 1 .. StripHeight
    /\ image \in [0 .. (width * height - 1) -> StripColours]
    /\ heap = <<>>
    /\ sels = <<>>
    /\ log = <<>>
    /\ Constructed

NextStrip ==
    /\ Len(log) < MaxStripCalls
    /\ \/ SelectionFromAlpha
       \/ SmoothSelection
       \/ InvertSelection

SpecStrip == InitStrip /\ [][NextStrip]_vars

(***************************************************************************)
(* Scenes for selectSubject.  A region must hold more than 100 pixels to   *)
(* be kept, so the images are larger: uniform images of 99, 100, 102 and   *)
(* 110 pixels, a strip of 183 x 3 pixels whose left 34 columns are red and *)
(* whose rest is grey, and a square of 40 x 40 pixels with a grey disc in  *)
(* a field of yellow and blue stripes.  The centre bias makes every grey   *)
(* pixel nearer the centre than 0.6 of the half diagonal part of one       *)
(* central region; a second region needs a band of grey beyond that.       *)
(***************************************************************************)
MaxSubjectCalls == 2

ColGrey == <<76, 76, 76, 255>>
ColYellow == <<255, 255, 0, 255>>

\* width and height of the uniform images
UniformSizes == {<<10, 10>>, <<20, 5>>, <<9, 11>>, <<10, 11>>, <<34, 3>>}
UniformColours == {ColRed, ColOrange, ColBlue, ColGrey}

UniformScenes ==
    {[w |-> s[1], h |-> s[2], img |-> [p \in 0 .. (s[1] * s[2] - 1) |-> c]] :
        s \in UniformSizes, c \in UniformColours}

\* the left columns red, the rest grey
StripScene(w, h, band) ==
    [w |-> w, h |-> h,
     img |-> [p \in 0 .. (w * h - 1) |-> IF p % w < band THEN ColRed ELSE ColGrey]]

\* grey where (dist / maxDist)^2 <= hundredths / 100, else stripes of two
\* columns yellow, two columns blue
RingScene(w, h, hundredths) ==
    [w |-> w, h |-> h,
     img |-> [p \in 0 .. (w * h - 1) |->
                LET x == p % w
                    y == p \div w
                    dnum == (2 * x - w) * (2 * x - w) + (2 * y - h) * (2 * y - h)
                IN  IF dnum * 100 <= hundredths * (w * w + h * h) THEN ColGrey
                    ELSE IF x % 4 < 2 THEN ColYellow ELSE ColBlue]]

SubjectScenes == UniformScenes \cup {StripScene(183, 3, 34), RingScene(40, 40, 46)}

InitSubject ==
    /\ \E s \in SubjectScenes : width = s.w /\ height = s.h /\ image = s.img
    /\ heap = <<>>
    /\ sels = <<>>
    /\ log = <<>>
    /\ Constructed

NextSubject ==
    /\ Len(log) < MaxSubjectCalls
    /\ \/ SelectSubject
       \/ SelectionFromAlpha
       \/ InvertSelection

SpecSubject == InitSubject /\ [][NextSubject]_vars

(***************************************************************************)
(* Calls with options outside their documented range: a fuzziness outside  *)
(* 0 .. 200 and radii below 0, with every target colour                    *)
(***************************************************************************)
MaxOptionCalls == 2

\* fuzziness -50, 0, 200 and 250
AnyFuzziness == {-50, 0, 200, 250}
AnyTargets == {ColRed, ColBlue, ColOrange}
\* radii -1, -0.5 and 0
AnyRadii == {-20, -10, 0}

MoreOptions == Len(log) < MaxOptionCalls

SelectColorRangeAny ==
    /\ MoreOptions
    /\ SelectColorRangeFrom(AnyTargets, AnyFuzziness)

GrowSelectionAny ==
    /\ MoreOptions /\ Latest > 0
    /\ GrowSelectionFrom(AnyRadii)

ShrinkSelectionAny ==
    /\ MoreOptions /\ Latest > 0
    /\ ShrinkSelectionFrom(AnyRadii)

FeatherSelectionAny ==
    /\ MoreOptions /\ Latest > 0
    /\ FeatherSelectionFrom(AnyRadii)

SmoothSelectionAny ==
    /\ MoreOptions /\ Latest > 0
    /\ SmoothSelectionFrom(AnyRadii)

NextOptions ==
    \/ SelectColorRangeAny
    \/ GrowSelectionAny
    \/ ShrinkSelectionAny
    \/ FeatherSelectionAny
    \/ SmoothSelectionAny

SpecOptions == Init /\ [][NextOptions]_vars

(***************************************************************************)
(* MaskEngine's clipping groups                                            *)
(***************************************************************************)
MaxClipCalls == 3
LayerIds == 1 .. 3

Includes(seq, e) == \E i \in 1 .. Len(seq) : seq[i] = e
\* the index of the first element that satisfies Test, 0 for none
FirstIndex(seq, Test(_)) ==
    IF \E i \in 1 .. Len(seq) : Test(seq[i])
    THEN CHOOSE i \in 1 .. Len(seq) : Test(seq[i]) /\ \A j \in 1 .. (i - 1) : ~Test(seq[j])
    ELSE 0

isLayerClippedIn(groups, layerId) ==
    \E g \in 1 .. Len(groups) : Includes(groups[g].clippedLayerIds, layerId)
\* the base of the first group that holds the layer, 0 for null
getClippingBaseIn(groups, layerId) ==
    LET HasIt(group) == Includes(group.clippedLayerIds, layerId)
        g == FirstIndex(groups, HasIt)
    IN  IF g = 0 THEN 0 ELSE groups[g].baseLayerId
isLayerClipped(layerId) == isLayerClippedIn(clippingGroups, layerId)
getClippingBase(layerId) == getClippingBaseIn(clippingGroups, layerId)

\* finds or creates the group of baseLayerId and adds the layer to it
\* unless that group has it
createClippingMaskIn(groups, layerId, baseLayerId) ==
    LET IsBase(group) == group.baseLayerId = baseLayerId
        found == FirstIndex(groups, IsBase)
        all == IF found = 0
               THEN Append(groups, [baseLayerId |-> baseLayerId, clippedLayerIds |-> <<>>])
               ELSE groups
        g == IF found = 0 THEN Len(all) ELSE found
    IN  IF Includes(all[g].clippedLayerIds, layerId) THEN all
        ELSE [all EXCEPT ![g].clippedLayerIds = Append(@, layerId)]

\* removes the layer from the first group that holds it (the loop breaks
\* there), then drops the empty groups
releaseClippingMaskIn(groups, layerId) ==
    LET HasIt(group) == Includes(group.clippedLayerIds, layerId)
        Other(id) == id # layerId
        NonEmpty(group) == Len(group.clippedLayerIds) > 0
        g == FirstIndex(groups, HasIt)
        spliced == IF g = 0 THEN groups
                   ELSE [groups EXCEPT ![g].clippedLayerIds = SelectSeq(@, Other)]
    IN  SelectSeq(spliced, NonEmpty)

MoreClip == Len(log) < MaxClipCalls

CreateClippingMask ==
    /\ MoreClip
    /\ \E layerId \in LayerIds, baseLayerId \in LayerIds :
        /\ clippingGroups' = createClippingMaskIn(clippingGroups, layerId, baseLayerId)
        /\ log' = Append(log, Call("createClippingMask", layerId, baseLayerId, 0))
    /\ UNCHANGED <<image, heap, sels, width, height, app, tool>>

ReleaseClippingMask ==
    /\ MoreClip
    /\ \E layerId \in LayerIds :
        /\ clippingGroups' = releaseClippingMaskIn(clippingGroups, layerId)
        /\ log' = Append(log, Call("releaseClippingMask", layerId, 0, 0))
    /\ UNCHANGED <<image, heap, sels, width, height, app, tool>>

NextClip ==
    \/ CreateClippingMask
    \/ ReleaseClippingMask

SpecClip == Init /\ [][NextClip]_vars

(***************************************************************************)
(* ZPaintApp's history over the layers of its RasterEngine.  Every         *)
(* operation calls pushHistory and then changes the layers.                *)
(***************************************************************************)
MaxAppCalls == 4
HistoryLimit == 50
FillColours == {ColRed, ColGrey}

LayerIndex(layers, id) ==
    LET IsIt(layer) == layer.id = id
    IN  FirstIndex(layers, IsIt)
Without(seq, i) == SubSeq(seq, 1, i - 1) \o SubSeq(seq, i + 1, Len(seq))

\* createSnapshot copies every layer, restoreSnapshot builds the layers
\* again from the copies: a layer record is its own copy
createSnapshot(a) == a.layers
restoreSnapshot(a, snapshots) == [a EXCEPT !.layers = snapshots]

\* the entry is put after history[historyIndex], the entries behind it are
\* dropped, and the oldest goes once there are more than HistoryLimit
pushHistory(a) ==
    LET entry == [layers |-> createSnapshot(a), activeLayerId |-> a.activeLayerId]
        newHistory == Append(SubSeq(a.history, 1, a.historyIndex + 1), entry)
    IN  [a EXCEPT !.history = IF Len(newHistory) > HistoryLimit THEN Tail(newHistory)
                              ELSE newHistory,
                  !.historyIndex = SetMin({@ + 1, HistoryLimit - 1})]

\* RasterEngine.createLayer without insertBelow
createLayer(a) ==
    [a EXCEPT !.layers = Append(@, Layer(a.nextId, Transparent)),
              !.engineActive = IF @ = 0 THEN a.nextId ELSE @,
              !.nextId = @ + 1]

\* RasterEngine.deleteLayer of a layer it has
deleteLayer(a, id) ==
    LET index == LayerIndex(a.layers, id)
        rest == Without(a.layers, index)
    IN  [a EXCEPT !.layers = rest,
                  !.engineActive = IF @ # id THEN @
                                   ELSE IF Len(rest) = 0 THEN 0
                                   ELSE rest[SetMin({index, Len(rest)})].id]

\* a log record of a ZPaintApp handler: before is the layers when the
\* handler was entered
AppCall(op, id) == [Call(op, id, 0, 0) EXCEPT !.options = [before |-> app.layers]]
MoreApp == Len(log) < MaxAppCalls
AppStep(a, call) ==
    /\ app' = a
    /\ log' = Append(log, call)
    /\ UNCHANGED <<image, heap, sels, width, height, clippingGroups, tool>>

HandleAddLayer ==
    /\ MoreApp
    /\ LET pushed == pushHistory(app)
           added == createLayer(pushed)
       IN  AppStep([added EXCEPT !.activeLayerId = app.nextId], AppCall("handleAddLayer", 0))

HandleDeleteLayer ==
    /\ MoreApp
    /\ Len(app.layers) > 1
    /\ \E i \in 1 .. Len(app.layers) :
        LET id == app.layers[i].id
            deleted == deleteLayer(pushHistory(app), id)
        IN  AppStep([deleted EXCEPT !.activeLayerId =
                                        IF app.activeLayerId = id THEN deleted.engineActive
                                        ELSE @],
                    AppCall("handleDeleteLayer", id))

\* FillTool.onPointerDown inside the canvas: the active layer, which is of
\* one colour, is filled with the foreground colour
Fill ==
    /\ MoreApp
    /\ LayerIndex(app.layers, app.engineActive) > 0
    /\ \E colour \in FillColours :
        LET pushed == pushHistory(app)
            index == LayerIndex(app.layers, app.engineActive)
        IN  AppStep([pushed EXCEPT !.layers[index].fill = colour],
                    AppCall("fill", app.engineActive))

Undo ==
    /\ MoreApp
    /\ app.historyIndex >= 0
    /\ LET restored ==
               IF app.historyIndex > 0
               THEN [restoreSnapshot(app, app.history[app.historyIndex].layers)
                        EXCEPT !.activeLayerId = app.history[app.historyIndex].activeLayerId]
               ELSE restoreSnapshot(app, <<>>)
       IN  AppStep([restored EXCEPT !.historyIndex = @ - 1], AppCall("undo", 0))

Redo ==
    /\ MoreApp
    /\ app.historyIndex < Len(app.history) - 1
    /\ LET entry == app.history[app.historyIndex + 2]
       IN  AppStep([restoreSnapshot(app, entry.layers)
                        EXCEPT !.activeLayerId = entry.activeLayerId,
                               !.historyIndex = @ + 1],
                   AppCall("redo", 0))

NextHistory ==
    \/ HandleAddLayer
    \/ HandleDeleteLayer
    \/ Fill
    \/ Undo
    \/ Redo

SpecHistory == Init /\ [][NextHistory]_vars

(***************************************************************************)
(* QuickSelectTool's pointer handlers.  The tool selects on the composite  *)
(* image, which no handler of the tool changes, with its own               *)
(* SelectionEngine; ctx.pushHistory is ZPaintApp's pushHistory.            *)
(***************************************************************************)
MaxToolEvents == 3
\* the pointer at (1.5, 1.5)
ToolPoints == {<<30, 30>>}
PointerHandlers == {"onPointerDown", "onPointerMove", "onPointerUp"}
PointerEvents == {k \in 1 .. Len(log) : log[k].op \in PointerHandlers}
MoreTool == Cardinality(PointerEvents) < MaxToolEvents

\* the engine's state while a handler runs
Engine == [heap |-> heap, sels |-> sels, log |-> log]
\* return { mask, bounds: this.computeBounds(mask), active: true }
Selected(e, m, call) ==
    LET r == Returned(e.heap, m)
    IN  [heap |-> r.h,
         sels |-> Append(e.sels, [mask |-> r.id, bounds |-> computeBounds(r.h[r.id]),
                                  active |-> TRUE]),
         log |-> Append(e.log, [call EXCEPT !.out = Len(e.sels) + 1])]

quickSelectOn(e, x, y, radius, mode, existing) ==
    LET mask == IF existing > 0 THEN copyMask(e.heap, e.sels[existing].mask)
                ELSE Alloc(e.heap, NewImageData)
        out == quickSelectData(image, x, y, radius, mode, mask.h[mask.id], SourceOrder)
    IN  Selected(e, WriteAll(mask, out),
                 [Call("quickSelect", existing, 0, radius)
                      EXCEPT !.mode = mode, !.x = x, !.y = y])

smoothSelectionOn(e, selection, radius) ==
    Selected(e, Alloc(e.heap, medianFilter(e.heap[e.sels[selection].mask], radius)),
             Call("smoothSelection", selection, 0, radius))

\* the tool and the engine after performSelection(x, y, mode)
performSelection(t, e, x, y, mode) ==
    IF ~t.selectionEngine THEN [tool |-> t, engine |-> e]
    ELSE LET selected == quickSelectOn(e, x, y, t.settings.size, mode, t.currentSelection)
             enhanced == smoothSelectionOn(selected, Len(selected.sels), Scale)
         IN  IF t.settings.autoEnhance
             THEN [tool |-> [t EXCEPT !.currentSelection = Len(enhanced.sels)],
                   engine |-> enhanced]
             ELSE [tool |-> [t EXCEPT !.currentSelection = Len(selected.sels)],
                   engine |-> selected]

effectiveModeOf(t, altKey, shiftKey) ==
    IF altKey THEN "subtract"
    ELSE IF shiftKey /\ t.currentSelection # 0 THEN "add"
    ELSE IF t.currentSelection = 0 THEN "new"
    ELSE t.mode

\* if (effectiveMode === 'new') this.currentSelection = null
resetCurrentKept(t, effectiveMode) == t
resetCurrent(t, effectiveMode) ==
    IF effectiveMode = "new" THEN [t EXCEPT !.currentSelection = 0] ELSE t

\* a log record of a pointer handler: a is the current selection when the
\* handler was entered
PointerCall(op, x, y, altKey, shiftKey) ==
    [Call(op, tool.currentSelection, 0, 0)
        EXCEPT !.x = x, !.y = y, !.options = [altKey |-> altKey, shiftKey |-> shiftKey]]
Entered(call) == [Engine EXCEPT !.log = Append(@, call)]

ToolStep(after) ==
    /\ tool' = after.tool
    /\ heap' = after.engine.heap
    /\ sels' = after.engine.sels
    /\ log' = after.engine.log
    /\ UNCHANGED <<image, width, height, clippingGroups>>

OnPointerDown ==
    /\ MoreTool
    /\ \E point \in ToolPoints, altKey \in BOOLEAN, shiftKey \in BOOLEAN :
        LET drawing == [tool EXCEPT !.isDrawing = TRUE, !.lastX = point[1],
                                   !.lastY = point[2], !.selectionEngine = TRUE]
            effectiveMode == effectiveModeOf(drawing, altKey, shiftKey)
        IN  /\ app' = pushHistory(app)
            /\ ToolStep(performSelection(
                    resetCurrent(drawing, effectiveMode),
                    Entered(PointerCall("onPointerDown", point[1], point[2], altKey, shiftKey)),
                    point[1], point[2], effectiveMode))

OnPointerMove ==
    /\ MoreTool
    /\ \E point \in ToolPoints, altKey \in BOOLEAN :
        LET entered == Entered(PointerCall("onPointerMove", point[1], point[2], altKey, FALSE))
            after == performSelection(tool, entered, point[1], point[2],
                                      IF altKey THEN "subtract" ELSE "add")
        IN  /\ ToolStep(IF ~tool.isDrawing THEN [tool |-> tool, engine |-> entered]
                        ELSE [after EXCEPT !.tool.lastX = point[1], !.tool.lastY = point[2]])
            /\ app' = app

OnPointerUp ==
    /\ MoreTool
    /\ ToolStep([tool |-> [tool EXCEPT !.isDrawing = FALSE],
                 engine |-> Entered(PointerCall("onPointerUp", 0, 0, FALSE, FALSE))])
    /\ app' = app

SetMode ==
    /\ \E mode \in Modes : tool' = [tool EXCEPT !.mode = mode]
    /\ UNCHANGED <<image, heap, sels, log, width, height, clippingGroups, app>>

SetSettings ==
    /\ \E autoEnhance \in BOOLEAN : tool' = [tool EXCEPT !.settings.autoEnhance = autoEnhance]
    /\ UNCHANGED <<image, heap, sels, log, width, height, clippingGroups, app>>

SetCurrentSelection ==
    /\ tool' = [tool EXCEPT !.currentSelection = 0]
    /\ UNCHANGED <<image, heap, sels, log, width, height, clippingGroups, app>>

NextTool ==
    \/ OnPointerDown
    \/ OnPointerMove
    \/ OnPointerUp
    \/ SetMode
    \/ SetSettings
    \/ SetCurrentSelection

\* a red canvas with one blue pixel
ToolImage == [p \in Pos |-> IF InPattern("spot", p) THEN ColBlue ELSE ColRed]

InitTool ==
    /\ width = W
    /\ height = H
    /\ image = ToolImage
    /\ heap = <<>>
    /\ sels = <<>>
    /\ log = <<>>
    /\ Constructed

SpecTool == InitTool /\ [][NextTool]_vars

(***************************************************************************)
(* Properties                                                              *)
(***************************************************************************)
Calls == 1 .. Len(log)
Made == {k \in Calls : log[k].out > 0}
OutMask(k) == heap[sels[log[k].out].mask]
InMask(k) == heap[sels[log[k].a].mask]
SameRGB(d, e) == \A p \in Pos : d[p][1] = e[p][1] /\ d[p][2] = e[p][2] /\ d[p][3] = e[p][3]
On(d) == {p \in Pos : d[p][1] > 0}
\* the buffer the last call allocated; the older ones were the newest in an
\* earlier state
NewestBuffer == IF Len(heap) > 0 THEN {Len(heap)} ELSE {}

\* The cells quickSelect writes, level by level: a cell's fate is decided by
\* its position, its colour and edge value, and the depth of the level it is
\* first reached in.
qsPasses(pos, depth, img, edges, startX, startY, maxRadius) ==
    LET dx == XOf(pos) - Floor(startX)
        dy == YOf(pos) - Floor(startY)
        start == img[Floor(startY) * width + Floor(startX)]
        diff == Abs(img[pos][1] - start[1]) + Abs(img[pos][2] - start[2])
                + Abs(img[pos][3] - start[3])
    IN  /\ maxRadius >= 0
        /\ (dx * dx + dy * dy) * Scale * Scale <= maxRadius * maxRadius
        /\ depth > 1 => ~edgeAbove(edges, pos, 3, 10) /\ diff <= 150

RECURSIVE qsLevels(_, _, _, _, _, _, _, _, _)
qsLevels(frontier, visited, written, depth, img, edges, startX, startY, maxRadius) ==
    IF frontier = {} THEN written
    ELSE
    LET acc == {q \in frontier : qsPasses(q, depth, img, edges, startX, startY, maxRadius)}
        nbrs == {q \in Pos : \E a \in acc :
                    Abs(XOf(q) - XOf(a)) + Abs(YOf(q) - YOf(a)) = 1}
        next == IF depth * Scale < maxRadius THEN nbrs \ visited ELSE {}
    IN  qsLevels(next, visited \cup next, written \cup acc, depth + 1,
                 img, edges, startX, startY, maxRadius)

qsExpected(k) ==
    LET c == log[k]
        seed == IF InBounds(Floor(c.x), Floor(c.y)) THEN {At(Floor(c.x), Floor(c.y))} ELSE {}
        cells == qsLevels(seed, seed, {}, 0, image, computeEdgeMap(image),
                          c.x, c.y, c.radius * 3)
        start == IF c.a > 0 THEN InMask(k) ELSE NewImageData
    IN  [p \in Pos |-> IF p \in cells /\ c.mode \in {"new", "add"} THEN Gray(255)
                       ELSE IF p \in cells /\ c.mode = "subtract" THEN Gray(0)
                       ELSE start[p]]

\* C1: whatever order the four neighbours are pushed in, quickSelect returns
\* the mask the source order returns, and that mask is the one decided level
\* by level from each cell's position, colour, edge value and depth.
C1_QuickSelectOrderIndependent ==
    \A k \in Calls : log[k].op = "quickSelect" =>
        /\ OutMask(k) = quickSelectData(image, log[k].x, log[k].y, log[k].radius,
                            log[k].mode,
                            IF log[k].a > 0 THEN InMask(k) ELSE NewImageData,
                            SourceOrder)
        /\ OutMask(k) = qsExpected(k)

\* a stroke from the corner that reaches cells at depth 2 and 3, accepts
\* some and rejects others
C1_Witness ==
    \E k \in Calls :
        /\ log[k].op = "quickSelect"
        /\ log[k].x = 0 /\ log[k].y = 0 /\ log[k].radius = 20
        /\ log[k].mode = "add" /\ log[k].a = 0
        /\ Cardinality(On(OutMask(k))) >= 4
        /\ Cardinality(Pos \ On(OutMask(k))) >= 2

\* C2: no engine call other than applySelectionAsAlpha changes the image,
\* and no engine call changes an existing mask buffer or selection object.
C2_InputsUnchanged ==
    [][/\ \A id \in 1 .. Len(heap) : heap'[id] = heap[id]
       /\ \A i \in 1 .. Len(sels) : sels'[i] = sels[i]
       /\ log'[Len(log')].op # "applySelectionAsAlpha" => image' = image]_vars

\* calls that copy their input and then write into the copy have run, and
\* their results differ from their inputs
C2_Witness ==
    /\ Len(log) = 3
    /\ log[2].op = "quickSelect" /\ log[2].a = 1 /\ OutMask(2) # InMask(2)
    /\ log[3].op = "refineEdge" /\ log[3].radius = 1 /\ ~SameRGB(OutMask(3), InMask(3))

\* C3 (as claimed): a returned selection's mask is never the buffer of an
\* input selection's mask.
C3_FreshMaskAlways ==
    \A k \in Made :
        /\ log[k].a > 0 => sels[log[k].out].mask # sels[log[k].a].mask
        /\ log[k].b > 0 => sels[log[k].out].mask # sels[log[k].b].mask

\* C4: the bounds of every selection returned by an operation other than
\* invertSelection are the tight rectangle around the pixels of strength
\* > 0, and the zero rectangle when there is none.
IsTight(r, d) ==
    IF On(d) = {} THEN r = [x |-> 0, y |-> 0, width |-> 0, height |-> 0]
    ELSE /\ \A p \in On(d) : /\ r.x <= XOf(p) /\ XOf(p) < r.x + r.width
                            /\ r.y <= YOf(p) /\ YOf(p) < r.y + r.height
         /\ \E p \in On(d) : XOf(p) = r.x
         /\ \E p \in On(d) : XOf(p) = r.x + r.width - 1
         /\ \E p \in On(d) : YOf(p) = r.y
         /\ \E p \in On(d) : YOf(p) = r.y + r.height - 1

C4_BoundsTight ==
    \A k \in Made : log[k].op # "invertSelection" =>
        IsTight(sels[log[k].out].bounds, OutMask(k))

\* a chain that holds a selection covering part of the canvas and an empty one
C4_Witness ==
    /\ \E k \in Made : /\ log[k].op # "invertSelection"
                       /\ On(OutMask(k)) # {}
                       /\ sels[log[k].out].bounds.x > 0
                       /\ sels[log[k].out].bounds.height < height
    /\ \E k \in Made : /\ log[k].op # "invertSelection"
                       /\ log[k].a > 0
                       /\ On(OutMask(k)) = {}

\* C5: invertSelection returns the full canvas as bounds, whatever the mask.
C5_InvertBoundsFullCanvas ==
    \A k \in Made : log[k].op = "invertSelection" =>
        sels[log[k].out].bounds = [x |-> 0, y |-> 0, width |-> width, height |-> height]

\* a mask that is 255 everywhere has been inverted to an all-zero mask
C5_Witness ==
    \E k \in Made :
        /\ log[k].op = "invertSelection"
        /\ \A p \in Pos : InMask(k)[p][1] = 255
        /\ On(OutMask(k)) = {}

\* C6 (as claimed): every mask buffer has R = G = B = A at every pixel.
C6_ChannelsEqual ==
    \A id \in 1 .. Len(heap) : \A p \in Pos :
        /\ heap[id][p][1] = heap[id][p][2]
        /\ heap[id][p][2] = heap[id][p][3]
        /\ heap[id][p][3] = heap[id][p][4]

\* C7: inverting twice gives back R, G and B of the mask, with alpha 255.
\* Stated for the calls of the log and for every mask on the heap.
C7_InvertInvolution ==
    /\ \A k \in Made, j \in Made :
        (log[k].op = "invertSelection" /\ log[j].op = "invertSelection"
            /\ log[k].a = log[j].out)
        => /\ SameRGB(OutMask(k), InMask(j))
           /\ \A p \in Pos : OutMask(k)[p][4] = 255
    /\ \A id \in NewestBuffer :
        LET twice == invertData(invertData(heap[id]))
        IN  SameRGB(twice, heap[id]) /\ \A p \in Pos : twice[p][4] = 255

\* a soft mask (with a strength strictly between 0 and 255) inverted twice
C7_Witness ==
    /\ Len(log) = 3
    /\ log[2].op = "invertSelection" /\ log[3].op = "invertSelection"
    /\ log[3].a = log[2].out
    /\ \E p \in Pos : InMask(2)[p][1] > 0 /\ InMask(2)[p][1] < 255
    /\ \E p \in Pos : InMask(2)[p][4] < 255

\* C8: closing never lowers a strength: erode(dilate(m, r), r) >= m at
\* every pixel, for r >= 0.
CloseRadii == {0, 10, 20}

C8_ClosingExtensive ==
    /\ \A id \in NewestBuffer, r \in CloseRadii :
        LET closed == morphClose(heap[id], r)
        IN  \A p \in Pos : closed[p][1] >= heap[id][p][1]
    /\ \A k \in Made, j \in Made :
        (log[k].op = "shrinkSelection" /\ log[j].op = "growSelection"
            /\ log[k].a = log[j].out /\ log[k].radius = log[j].radius)
        => \A p \in Pos : OutMask(k)[p][1] >= InMask(j)[p][1]

\* a mask with selected pixels on the border and unselected ones, grown and
\* then shrunk by the same radius
C8_Witness ==
    /\ Len(log) = 3
    /\ log[2].op = "growSelection" /\ log[3].op = "shrinkSelection"
    /\ log[3].a = log[2].out /\ log[3].radius = log[2].radius
    /\ \E p \in On(InMask(2)) : ~Interior(p)
    /\ On(InMask(2)) # Pos
    /\ On(OutMask(3)) # Pos

\* C9: a blur of radius < 0.5 returns the mask's pixel values in all four
\* channels.
SmallRadii == {-20, 0, 8, 9}

C9_BlurIdentityBelowHalf ==
    /\ \A k \in Made : (log[k].op = "featherSelection" /\ 2 * log[k].radius < Scale)
        => OutMask(k) = InMask(k)
    /\ \A id \in NewestBuffer, r \in SmallRadii :
        LET m == gaussianBlur(Ref(heap, id), r) IN m.h[m.id] = heap[id]

\* a mask with soft values and alpha below 255, feathered with radius 0.4
C9_Witness ==
    \E k \in Made :
        /\ log[k].op = "featherSelection" /\ log[k].radius = 8
        /\ \E p \in Pos : InMask(k)[p][1] > 0 /\ InMask(k)[p][4] < 255
        /\ \E p \in Pos : InMask(k)[p][1] = 0

\* C10: 'intersect' is pixelwise <= 'add' in every channel.
C10_IntersectBelowAdd ==
    \A i \in 1 .. Len(sels), j \in 1 .. Len(sels) :
        LET meet == combineData(heap[sels[i].mask], heap[sels[j].mask], "intersect")
            join == combineData(heap[sels[i].mask], heap[sels[j].mask], "add")
        IN  \A p \in Pos, ch \in 1 .. 4 : meet[p][ch] <= join[p][ch]

\* two different masks were intersected, and adding them gives more
C10_Witness ==
    \E k \in Made :
        /\ log[k].op = "combineSelections" /\ log[k].mode = "intersect"
        /\ heap[sels[log[k].a].mask] # heap[sels[log[k].b].mask]
        /\ \E p \in Pos : OutMask(k)[p][1] > 0 /\ OutMask(k)[p][1] < 255
        /\ OutMask(k) # combineData(heap[sels[log[k].a].mask],
                                    heap[sels[log[k].b].mask], "add")

\* C11: combineSelections writes, at every pixel, min(255, a + b) for 'add',
\* max(0, a - b) for 'subtract', the smaller of a and b for 'intersect' and
\* b for any other mode, to R, G and B with alpha 255; a 0/255 mask combined
\* with its complement is 255 everywhere under 'add' and 0 everywhere under
\* 'intersect'.
Binary(d) == \A p \in Pos : d[p][1] \in {0, 255}
Complements(d, e) == Binary(d) /\ \A p \in Pos : e[p][1] = 255 - d[p][1]

C11_CombineFormula ==
    \A k \in Made : log[k].op = "combineSelections" =>
        LET a == heap[sels[log[k].a].mask]
            b == heap[sels[log[k].b].mask]
            expected(p) ==
                IF log[k].mode = "add"
                THEN (IF a[p][1] + b[p][1] > 255 THEN 255 ELSE a[p][1] + b[p][1])
                ELSE IF log[k].mode = "subtract"
                THEN (IF a[p][1] - b[p][1] < 0 THEN 0 ELSE a[p][1] - b[p][1])
                ELSE IF log[k].mode = "intersect"
                THEN (IF a[p][1] < b[p][1] THEN a[p][1] ELSE b[p][1])
                ELSE b[p][1]
        IN  /\ \A p \in Pos :
                OutMask(k)[p] = <<expected(p), expected(p), expected(p), 255>>
            /\ (Complements(a, b) /\ log[k].mode = "add")
                    => \A p \in Pos : OutMask(k)[p][1] = 255
            /\ (Complements(a, b) /\ log[k].mode = "intersect")
                    => \A p \in Pos : OutMask(k)[p][1] = 0

\* a mask holding both 0 and 255 was combined with its inverse
C11_Witness ==
    \E k \in Made :
        /\ log[k].op = "combineSelections" /\ log[k].mode \in {"add", "intersect"}
        /\ Complements(heap[sels[log[k].a].mask], heap[sels[log[k].b].mask])
        /\ \E p \in Pos : heap[sels[log[k].a].mask][p][1] = 0
        /\ \E p \in Pos : heap[sels[log[k].a].mask][p][1] = 255

SameColour(px, c) == px[1] = c[1] /\ px[2] = c[2] /\ px[3] = c[3]
RangeCalls == {k \in Made : log[k].op = "selectColorRange"}

\* C12 (as claimed): selectColorRange with fuzziness 0 gives strength 255 to
\* every pixel whose RGB equals targetColor and 0 to every other pixel.
C12_ExactMatchAtZero ==
    \A k \in RangeCalls : log[k].fuzziness = 0 =>
        \A p \in Pos :
            OutMask(k)[p][1] = IF SameColour(image[p], log[k].targetColor) THEN 255 ELSE 0

\* C13: on a uniform image, selectColorRange with the image's colour as
\* target and fuzziness 200 returns strength 255 at every pixel and the
\* whole image as bounds.
C13_UniformFullySelected ==
    \A k \in RangeCalls :
        (log[k].fuzziness = 200 /\ \A p \in Pos : SameColour(image[p], log[k].targetColor))
        => /\ \A p \in Pos : OutMask(k)[p][1] = 255
           /\ sels[log[k].out].bounds = [x |-> 0, y |-> 0, width |-> width, height |-> height]

\* a uniform image was range-selected by its own colour with fuzziness 200
C13_Witness ==
    \E k \in RangeCalls :
        /\ log[k].fuzziness = 200
        /\ \A p \in Pos : SameColour(image[p], log[k].targetColor)
        /\ \A p \in Pos : image[p] = image[0]

\* C14: on an image without luminance gradient (the luminance is the same
\* at every pixel) the edge map is 0 at every pixel: the squared magnitudes
\* are 0, the normalised value is 0 and not the result of 0 / 0, and no
\* pixel's edge value is above 0.
FlatLuminance(img) == \A p \in Pos : Lum(img[p]) = Lum(img[0])

C14_FlatImageNoEdges ==
    FlatLuminance(image) =>
        LET edges == computeEdgeMap(image)
        IN  \A p \in Pos : /\ edges.mag2[p] = 0
                            /\ edgeMilli(edges, p) = 0
                            /\ ~edgeAbove(edges, p, 0, 1)

\* quickSelect has computed the edge map of an image that is (255, 0, 0, 255)
\* everywhere
C14_Witness ==
    /\ \A p \in Pos : image[p] = <<255, 0, 0, 255>>
    /\ \E p \in Pos : Interior(p) /\ p # At(1, 1)
    /\ \E k \in Made : log[k].op = "quickSelect"

\* the quickSelect calls whose seed is inside the image, the seed's cell, the
\* in-bounds 4-neighbours of that cell, and the mask the call starts from
StrokeCalls == {k \in Made : log[k].op = "quickSelect"}
SeedInside(k) == InBounds(Floor(log[k].x), Floor(log[k].y))
SeedCell(k) == At(Floor(log[k].x), Floor(log[k].y))
RingOf(k) ==
    {n \in Pos : Abs(XOf(n) - XOf(SeedCell(k))) + Abs(YOf(n) - YOf(SeedCell(k))) = 1}
StartMask(k) == IF log[k].a > 0 THEN InMask(k) ELSE NewImageData
\* what a write of the call's mode leaves at p
Written(k, p) ==
    IF log[k].mode \in {"new", "add"} THEN OutMask(k)[p] = <<255, 255, 255, 255>>
    ELSE OutMask(k)[p] = <<0, 0, 0, 0>>
ColourDiff(px, c) == Abs(px[1] - c[1]) + Abs(px[2] - c[2]) + Abs(px[3] - c[3])

FramedBlock(img) ==
    /\ \A p \in Pos : OnFrame(p) => SameColour(img[p], img[0])
    /\ \A p \in Pos : ~OnFrame(p) => SameColour(img[p], img[At(1, 1)])
    /\ ColourDiff(img[0], img[At(1, 1)]) > 150
\* quickSelect(img, 2, 2, radius = 1, mode = 'new') without existing selection
CentreStrokes ==
    {k \in StrokeCalls : /\ log[k].x = 2 * Scale /\ log[k].y = 2 * Scale
                          /\ log[k].radius = Scale /\ log[k].mode = "new"
                          /\ log[k].a = 0}
\* p has one of its eight neighbours on the frame
BesideFrame(p) ==
    \E q \in Pos : OnFrame(q) /\ Abs(XOf(q) - XOf(p)) <= 1 /\ Abs(YOf(q) - YOf(p)) <= 1

\* C16 (as claimed): the stroke selects the whole inner block at strength
\* 255 and nothing of the frame.
C16_InnerBlockSelected ==
    \A k \in CentreStrokes : FramedBlock(image) =>
        \A p \in Pos : OutMask(k)[p][1] = IF OnFrame(p) THEN 0 ELSE 255

\* C16 (amended): when the frame's luminance differs from the block's, the
\* stroke selects the seed and its four 4-neighbours at strength 255, no
\* other pixel that has a neighbour on the frame (the corners of the inner
\* block: their edge value is above 0.3 at depth 2) and no pixel of the
\* frame; on the 5x5 image that is exactly the five pixels.
C16_SeedAndRingSelected ==
    \A k \in CentreStrokes :
        (FramedBlock(image) /\ Lum(image[0]) # Lum(image[At(1, 1)]))
        => /\ \A p \in {SeedCell(k)} \cup RingOf(k) : OutMask(k)[p][1] = 255
           /\ \A p \in Pos \ ({SeedCell(k)} \cup RingOf(k)) :
                (OnFrame(p) \/ BesideFrame(p)) => OutMask(k)[p][1] = 0
           /\ (width = 5 /\ height = 5) => On(OutMask(k)) = {SeedCell(k)} \cup RingOf(k)

\* the stroke was made on a red block in a blue frame, and the corners of
\* the block were visited at depth 2 with an edge value above 0.3
C16_Witness ==
    \E k \in CentreStrokes :
        /\ FramedBlock(image)
        /\ \A p \in Pos : image[p] = IF OnFrame(p) THEN <<0, 0, 255, 0>>
                                       ELSE <<255, 0, 0, 255>>
        /\ edgeAbove(computeEdgeMap(image), At(1, 1), 3, 10)
        /\ Cardinality(On(OutMask(k))) = 5

\* C17: a quickSelect call whose seed lies outside the image writes no
\* pixel: it returns the existing selection's mask unchanged, or an all-zero
\* mask with the zero rectangle as bounds when there is none, for every mode
\* and radius.
C17_OutsideSeedNoOp ==
    \A k \in StrokeCalls : ~SeedInside(k) =>
        IF log[k].a > 0
        THEN OutMask(k) = InMask(k)
        ELSE /\ \A p \in Pos : OutMask(k)[p] = <<0, 0, 0, 0>>
             /\ sels[log[k].out].bounds = [x |-> 0, y |-> 0, width |-> 0, height |-> 0]

\* a stroke seeded outside the image was made over a non-empty selection,
\* with a mode that writes and a radius that would reach into the image
C17_Witness ==
    /\ Len(log) = 2
    /\ log[1].op = "quickSelect" /\ SeedInside(1) /\ On(OutMask(1)) # {}
    /\ log[2].op = "quickSelect" /\ ~SeedInside(2)
    /\ log[2].a = 1 /\ log[2].mode = "subtract" /\ log[2].radius = Scale
    /\ On(OutMask(2)) = On(OutMask(1))

\* the strengths the four radius-taking modifications give with radius 0
AtRadiusZero(op, d) ==
    CASE op = "growSelection" -> dilate(d, 0)
      [] op = "shrinkSelection" -> erode(d, 0)
      [] op = "smoothSelection" -> medianFilter(d, 0)
      [] op = "featherSelection" -> d

\* C18 (as claimed): growSelection, shrinkSelection, smoothSelection and
\* featherSelection with a radius < 0 return, at every pixel, the strength
\* the same call returns with radius 0, which is the input's strength.
C18_NegativeRadiusClamped ==
    \A k \in Made :
        (log[k].op \in {"growSelection", "shrinkSelection", "smoothSelection",
                        "featherSelection"} /\ log[k].radius < 0)
        => \A p \in Pos : /\ OutMask(k)[p][1] = AtRadiusZero(log[k].op, InMask(k))[p][1]
                           /\ OutMask(k)[p][1] = InMask(k)[p][1]

\* C19 (as claimed): selectColorRange with a fuzziness below 0 returns the
\* mask it returns with fuzziness 0, and with a fuzziness above 200 the mask
\* it returns with fuzziness 200.
C19_FuzzinessClamped ==
    \A k \in RangeCalls :
        /\ log[k].fuzziness < 0
            => OutMask(k) = selectColorRangeData(image, log[k].targetColor, 0)
        /\ log[k].fuzziness > 200
            => OutMask(k) = selectColorRangeData(image, log[k].targetColor, 200)

\* C20: a step of applySelectionAsAlpha sets each pixel's alpha to the
\* smaller of its old alpha and the mask's strength, leaves R, G and B, the
\* mask buffers and the selections unchanged, raises no alpha, and applied
\* again with the same selection changes nothing.
C20_AlphaLoweredToStrength ==
    [][(Len(log') = Len(log) + 1 /\ log'[Len(log')].op = "applySelectionAsAlpha")
       => LET m == heap[sels[log'[Len(log')].a].mask]
              again == Len(log) > 0 /\ log[Len(log)].op = "applySelectionAsAlpha"
                       /\ log[Len(log)].a = log'[Len(log')].a
          IN  /\ \A p \in Pos :
                    /\ image'[p][4] = IF image[p][4] < m[p][1] THEN image[p][4] ELSE m[p][1]
                    /\ image'[p][4] <= image[p][4]
                    /\ image'[p][1] = image[p][1]
                    /\ image'[p][2] = image[p][2]
                    /\ image'[p][3] = image[p][3]
              /\ heap' = heap
              /\ sels' = sels
              /\ applySelectionAsAlphaData(image', m) = image'
              /\ again => image' = image]_vars

\* a selection was applied twice to a red image: the alpha of the pixels it
\* leaves out went from 255 to 0, the alpha of the others stayed
C20_Witness ==
    /\ Len(log) = 3
    /\ log[2].op = "applySelectionAsAlpha" /\ log[3].op = "applySelectionAsAlpha"
    /\ \E p \in Pos : image[p] = <<255, 0, 0, 0>>
    /\ \E p \in Pos : image[p] = <<255, 0, 0, 255>>

\* the sample list of pixel p for the radius of a call: the in-bounds pixels
\* of the square around p
Samples(p, radius) == Square(p, radius)
\* v is the element at index i (from 0) of the ascending sample list of Q
IsSortedAt(d, Q, v, i) ==
    /\ \E q \in Q : d[q][1] = v
    /\ Cardinality({q \in Q : d[q][1] < v}) <= i
    /\ i < Cardinality({q \in Q : d[q][1] <= v})
SmoothStep == Len(log') = Len(log) + 1 /\ log'[Len(log')].op = "smoothSelection"
StepIn == heap[sels[log'[Len(log')].a].mask]
StepOut == heap'[sels'[log'[Len(log')].out].mask]

\* C21 (as stated): a step of smoothSelection writes, at every pixel, the
\* lower median of the samples around it: for an even count n the element at
\* index n/2 - 1 of the ascending list, for an odd count the middle one.
C21_LowerMedianForEven ==
    [][SmoothStep =>
        \A p \in Pos :
            LET Q == Samples(p, log'[Len(log')].radius)
                n == Cardinality(Q)
            IN  IsSortedAt(StepIn, Q, StepOut[p][1],
                           IF n % 2 = 0 THEN n \div 2 - 1 ELSE n \div 2)]_vars

\* C21 (amended): a step of smoothSelection writes, at every pixel, the
\* element at index floor(n / 2) of the ascending list of its n samples into
\* R, G and B and 255 into alpha: the middle sample of an odd count and the
\* upper of the two middle samples of an even count.
C21_UpperMedianForEven ==
    [][SmoothStep =>
        \A p \in Pos :
            LET Q == Samples(p, log'[Len(log')].radius)
                n == Cardinality(Q)
            IN  /\ IsSortedAt(StepIn, Q, StepOut[p][1], n \div 2)
                /\ StepOut[p] = Opaque(StepOut[p][1])]_vars

\* the two-pixel mask (0, 255) was smoothed with radius 1: both pixels have
\* the two samples 0 and 255, and both came out 255
C21_Witness ==
    /\ width = 2 /\ height = 1
    /\ Len(log) = 2
    /\ log[1].op = "selectionFromAlpha"
    /\ log[2].op = "smoothSelection" /\ log[2].a = log[1].out /\ log[2].radius = Scale
    /\ InMask(2)[0][1] = 0 /\ InMask(2)[1][1] = 255
    /\ OutMask(2)[0][1] = 255 /\ OutMask(2)[1][1] = 255

\* The regions of selectSubject, described apart from the scan: a region is
\* a 4-connected component of the pixels whose saliency reaches the spread
\* threshold, and it is found when it holds an interior pixel whose saliency
\* reaches the seed threshold.
Nbrs4(p) ==
    {q \in {p - 1, p + 1, p - width, p + width} :
        /\ q \in Pos
        /\ Abs(XOf(q) - XOf(p)) + Abs(YOf(q) - YOf(p)) = 1}

\* up to n rounds of growing the set by the allowed neighbours of its newest
\* pixels, the first half of the rounds and then the rest
RECURSIVE GrowIn(_, _, _, _)
GrowIn(set, frontier, allowed, n) ==
    IF frontier = {} THEN [set |-> set, frontier |-> frontier]
    ELSE IF n <= 1
    THEN LET next == (UNION {Nbrs4(a) : a \in frontier} \cap allowed) \ set
         IN  [set |-> set \cup next, frontier |-> next]
    ELSE LET half == GrowIn(set, frontier, allowed, n \div 2)
         IN  GrowIn(half.set, half.frontier, allowed, n - n \div 2)

Component(seed, allowed) == GrowIn({seed}, {seed}, allowed, N).set

RECURSIVE ComponentsOf(_, _, _)
ComponentsOf(seeds, allowed, found) ==
    IF seeds = {} THEN found
    ELSE LET c == Component(SetMin(seeds), allowed)
         IN  ComponentsOf(seeds \ c, allowed, found \cup {c})

SaliencyOf(img) ==
    LET edges == computeEdgeMap(img)
    IN  [p \in Pos |-> saliencyMicro(img, edges, p)]

SalientRegions(sal) ==
    ComponentsOf({p \in Pos : Interior(p) /\ sal[p] >= salThreshold},
                 {p \in Pos : sal[p] >= salSpread}, {})

\* the summed saliency of a region, in thousandths
SummedSaliency(c, sal) ==
    SeqSum([i \in 1 .. N |-> IF (i - 1) \in c THEN sal[i - 1] \div 1000 ELSE 0])

LastIs(op) == Len(log) > 0 /\ log[Len(log)].op = op
LastOut == heap[sels[log[Len(log)].out].mask]

\* C22: when the image has a single salient region and that region holds at
\* least 100 pixels, exactly 100 included, selectSubject keeps it and the
\* returned mask has strength 255 on every pixel of it.
C22_HundredPixelRegionQualifies ==
    LastIs("selectSubject") =>
        LET regions == SalientRegions(SaliencyOf(image))
        IN  \A c \in regions :
                (regions = {c} /\ Cardinality(c) >= 100)
                    => \A p \in c : LastOut[p][1] = 255

PartialSeed(d, p) == d[p][1] > 0 /\ d[p][1] < 255
EdgeSeed(d, p) ==
    \E q \in Pos : /\ Abs(XOf(q) - XOf(p)) <= 1 /\ Abs(YOf(q) - YOf(p)) <= 1
                   /\ Abs(d[q][1] - d[p][1]) > 128
WithinPixels(p, q, radius) ==
    (XOf(q) - XOf(p)) * (XOf(q) - XOf(p)) + (YOf(q) - YOf(p)) * (YOf(q) - YOf(p))
        <= radius * radius

\* C24: in a refineEdge call, the edge zone findEdgeZone computes from the
\* input mask holds, for every seed (a pixel of partial value or a pixel
\* with an 8-neighbour differing by more than 128), every in-bounds pixel
\* within Euclidean distance options.radius of the seed.
C24_EverySeedAddsItsDisc ==
    LastIs("refineEdge") =>
        LET d == InMask(Len(log))
            radius == log[Len(log)].radius
            zone == findEdgeZone(d, radius)
        IN  \A p \in Pos : (PartialSeed(d, p) \/ EdgeSeed(d, p)) =>
                \A q \in Pos : WithinPixels(p, q, radius) => q \in zone

\* the options of the newest call, a refineEdge call
LastOptions == log[Len(log)].options
\* a refineEdge call whose stages after the smart-radius pass do nothing
OnlySmartRadius ==
    /\ LastIs("refineEdge")
    /\ LastOptions.smooth = 0 /\ LastOptions.feather = 0
    /\ LastOptions.contrast = 0 /\ LastOptions.shift = 0

\* C25: the smart-radius pass of refineEdge runs only when options.radius
\* > 0; it sets a pixel of the edge zone whose image edge strength is above
\* 0.5 to 255 if its value is above 127 and to 0 otherwise, and every other
\* pixel keeps its value.  (Read off the calls whose later stages are off.)
C25_SmartRadiusBinarisesStrongEdges ==
    OnlySmartRadius =>
        LET d == InMask(Len(log))
            edges == computeEdgeMap(image)
            inZone(p) == \/ PartialSeed(d, p)
                         \/ \E q \in Pos : /\ ~PartialSeed(d, q) /\ EdgeSeed(d, q)
                                            /\ WithinPixels(q, p, LastOptions.radius)
        IN  \A p \in Pos :
                IF LastOptions.radius > 0 /\ inZone(p)
                   /\ 4 * edges.mag2[p] > edges.max2
                THEN LET v == IF d[p][1] > 127 THEN 255 ELSE 0
                     IN  LastOut[p] = <<v, v, v, d[p][4]>>
                ELSE LastOut[p] = d[p]

\* refineEdge with radius 1 and nothing else turned a partial value on a
\* strong image edge into 0 or 255 and left a partial value off the edge
C25_Witness ==
    /\ OnlySmartRadius
    /\ LastOptions.radius = 1
    /\ \E p \in Pos : /\ PartialSeed(InMask(Len(log)), p)
                       /\ LastOut[p][1] \in {0, 255}
    /\ \E p \in Pos : /\ PartialSeed(InMask(Len(log)), p)
                       /\ LastOut[p] = InMask(Len(log))[p]

\* a refineEdge call with radius, feather, contrast and shift 0 and a smooth
\* of 0 .. 9, whose blur radius smooth / 20 is below 0.5
OnlySmallSmooth ==
    /\ LastIs("refineEdge")
    /\ LastOptions.radius = 0 /\ LastOptions.feather = 0
    /\ LastOptions.contrast = 0 /\ LastOptions.shift = 0
    /\ LastOptions.smooth >= 0 /\ LastOptions.smooth < 10

\* C27: refineEdge with radius = 0, feather = 0, contrast = 0, shift = 0 and
\* 0 <= smooth < 10 returns a mask whose four channels equal the input
\* mask's at every pixel, with the tight bounds of that mask.
C27_NeutralOptionsReturnInput ==
    OnlySmallSmooth =>
        /\ \A p \in Pos : LastOut[p] = InMask(Len(log))[p]
        /\ IsTight(sels[log[Len(log)].out].bounds, InMask(Len(log)))

\* refineEdge with smooth 9 and nothing else ran on a mask that holds two
\* different strengths, which a blur would have mixed
C27_Witness ==
    /\ OnlySmallSmooth
    /\ LastOptions.smooth = 9
    /\ \E p \in Pos, q \in Pos : InMask(Len(log))[p][1] # InMask(Len(log))[q][1]
    /\ LastOut = InMask(Len(log))

\* the pixel lies farther than radius * 3 from the seed of call k, the
\* distance taken as the loop takes it: between the pixel and the pixel of
\* the seed
FarFromSeed(k, p) ==
    LET dx == XOf(p) - Floor(log[k].x)
        dy == YOf(p) - Floor(log[k].y)
    IN  (dx * dx + dy * dy) * Scale * Scale > (3 * log[k].radius) * (3 * log[k].radius)

\* C26: against its existing selection E (an empty mask when there is none)
\* quickSelect in mode add lowers no pixel, in mode subtract raises none,
\* and in every mode leaves every pixel farther than radius * 3 from the
\* seed with the value it has in E.
C26_StrokeMonotoneAndLocal ==
    \A k \in StrokeCalls :
        /\ log[k].mode = "add" => \A p \in Pos : OutMask(k)[p][1] >= StartMask(k)[p][1]
        /\ log[k].mode = "subtract" => \A p \in Pos : OutMask(k)[p][1] <= StartMask(k)[p][1]
        /\ \A p \in Pos : FarFromSeed(k, p) => OutMask(k)[p] = StartMask(k)[p]

\* a second stroke in mode subtract with radius 1 cleared pixels near its
\* seed and left a selected pixel beyond radius * 3 selected
C26_Witness ==
    \E k \in StrokeCalls :
        /\ log[k].a > 0 /\ log[k].mode = "subtract" /\ log[k].radius = Scale
        /\ \E p \in Pos : OutMask(k)[p][1] < StartMask(k)[p][1]
        /\ \E p \in Pos : /\ FarFromSeed(k, p)
                           /\ StartMask(k)[p][1] = 255 /\ OutMask(k)[p][1] = 255

(***************************************************************************)
(* Clipping groups                                                         *)
(***************************************************************************)
GroupsOf(layerId) ==
    {g \in 1 .. Len(clippingGroups) : Includes(clippingGroups[g].clippedLayerIds, layerId)}
Released == IF Len(log) > 0 /\ log[Len(log)].op = "releaseClippingMask"
            THEN {log[Len(log)].a} ELSE {}

\* C28: after releaseClippingMask(layerId) the layer is not clipped and has
\* no clipping base, whatever createClippingMask and releaseClippingMask
\* calls came before; and no layer id is in more than one clipping group.
C28_ReleasedLayerIsUnclipped ==
    /\ \A layerId \in Released : ~isLayerClipped(layerId) /\ getClippingBase(layerId) = 0
    /\ \A layerId \in LayerIds : Cardinality(GroupsOf(layerId)) <= 1

(***************************************************************************)
(* Undo and redo                                                           *)
(***************************************************************************)
Operations == {"handleAddLayer", "handleDeleteLayer", "fill"}
LastCall == log[Len(log)]
NowCalls(op) == Len(log') = Len(log) + 1 /\ log'[Len(log')].op = op
\* an undo that follows an operation, with no undo or redo in between
UndoOfOperation == Len(log) > 0 /\ LastCall.op \in Operations /\ NowCalls("undo")
\* a redo that follows an undo
RedoOfUndo == Len(log) > 0 /\ LastCall.op = "undo" /\ NowCalls("redo")

\* C29: an undo after an operation restores the layers to what they were
\* immediately before that operation, and a redo after an undo restores
\* the layers to what they were before the undo.
C29_UndoReversesLastOperation ==
    [][(UndoOfOperation \/ RedoOfUndo) => app'.layers = LastCall.options.before]_vars

(***************************************************************************)
(* The quick-select tool's strokes                                         *)
(***************************************************************************)
\* the handler this step runs: its record is the first the step appends
Handles(op) == Len(log') > Len(log) /\ log'[Len(log) + 1].op = op
\* the engine calls of the given kind this step makes
StepCalls(op) == {k \in (Len(log) + 1) .. Len(log') : log'[k].op = op}
\* a pointer down has occurred with no pointer up since
PointerIsDown ==
    LET E == {k \in 1 .. Len(log) : log[k].op \in {"onPointerDown", "onPointerUp"}}
    IN  E # {} /\ log[SetMax(E)].op = "onPointerDown"

\* C30: every onPointerDown pushes exactly one history entry and makes one
\* quickSelect call, and when the call's mode is 'new' it is made without
\* an existing selection; onPointerMove pushes no history and makes one
\* quickSelect call if a pointer down occurred with no pointer up since,
\* none otherwise.
C30_OneStrokeOneHistoryEntry ==
    [][/\ Handles("onPointerDown") =>
            /\ Len(app'.history) = Len(app.history) + 1
            /\ app'.history[Len(app'.history)].layers = app.layers
            /\ Cardinality(StepCalls("quickSelect")) = 1
            /\ \A k \in StepCalls("quickSelect") : log'[k].mode = "new" => log'[k].a = 0
       /\ Handles("onPointerMove") =>
            /\ app'.history = app.history
            /\ Cardinality(StepCalls("quickSelect")) = IF PointerIsDown THEN 1 ELSE 0
      ]_vars

\* a pointer down, a move that selects, and a second pointer down that
\* drops the selection of the first stroke and selects anew: two history
\* entries
C30_Witness ==
    /\ \E k \in 1 .. (Len(log) - 1) :
        /\ log[k].op = "onPointerDown" /\ log[k].a > 0
        /\ log[k + 1].op = "quickSelect" /\ log[k + 1].mode = "new" /\ log[k + 1].a = 0
    /\ \E k \in 1 .. (Len(log) - 1) :
        log[k].op = "onPointerMove" /\ log[k + 1].op = "quickSelect"
    /\ Len(app.history) = 2

====
